---------------------------- MODULE Spec2Model ----------------------------
(***************************************************************************)
(* ClientSync: the per-peer synchronization protocol of the multipeer      *)
(* adapter (packages/sdk/src/adapters/multipeer/protocols/clientSync.ts).  *)
(*                                                                         *)
(* Scheduling.  The program runs on one JavaScript event loop.  The sync   *)
(* driver (run) proceeds through microtasks until it awaits a promise that *)
(* is not settled; only then can another macrotask run (a reply arriving   *)
(* from the network, the application sending a message).  Driver steps are *)
(* therefore taken with priority: the macrotask actions are enabled only   *)
(* when no driver step is (DriverReady).                                   *)
(***************************************************************************)
EXTENDS Integers, Sequences, FiniteSets, TLC

(***************************************************************************)
(* Bounds of the model.                                                    *)
(***************************************************************************)
MaxAssets == 1
MaxAssetUpdates == 1
MaxActors == 2
MaxTreeActors == 4
MaxReplayAssets == 2
MaxAnimationStates == 2
MaxBehaviors == 1
MaxAnimated == 1
MaxAppMessages == 2
MaxFailures == 1

(***************************************************************************)
(* Stages, handlings, rules.                                               *)
(***************************************************************************)
\* The order of synchronization stages with set-behaviors ahead of create-actors.
sequence_Swapped ==
    <<"load-assets", "set-behaviors", "create-actors", "create-animations", "sync-animations">>

\* The order of synchronization stages.
sequence ==
    <<"load-assets", "create-actors", "set-behaviors", "create-animations", "sync-animations">>

SynchronizationStage ==
    {"always", "load-assets", "create-actors", "create-animations",
     "sync-animations", "set-behaviors", "never"}

Handling == {"allow", "queue", "ignore", "error"}

Rule(stage, before, during, after) ==
    [stage |-> stage, before |-> before, during |-> during, after |-> after]

\* The rule table: message discriminant -> synchronization rule.
Rules ==
    [ t \in {"load-assets", "asset-update", "create-actor", "set-behavior",
             "create-animation", "interpolate-actor", "sync-animations",
             "actor-update", "heartbeat", "sync-complete"} |->
        CASE t \in {"load-assets", "asset-update"} -> Rule("load-assets", "queue", "allow", "allow")
          [] t = "create-actor" -> Rule("create-actors", "queue", "allow", "allow")
          [] t = "set-behavior" -> Rule("set-behaviors", "queue", "allow", "allow")
          [] t \in {"create-animation", "interpolate-actor"} ->
                 Rule("create-animations", "queue", "allow", "allow")
          [] t = "sync-animations" -> Rule("sync-animations", "ignore", "allow", "allow")
          [] t = "actor-update" -> Rule("never", "queue", "queue", "allow")
          [] OTHER -> Rule("always", "allow", "allow", "allow") ]

\* The rule used for a discriminant that has no entry in the table.
MissingRule == Rule("never", "queue", "queue", "allow")

\* Discriminants the application sends through the router while the peer synchronizes.
AppTypes == {"create-actor", "sync-animations", "heartbeat", "unknown"}

PayloadTypes == DOMAIN Rules \cup {"unknown"}

(***************************************************************************)
(* Helpers on sequences.                                                   *)
(***************************************************************************)
Range(s) == {s[i] : i \in DOMAIN s}

includes(s, x) == \E i \in DOMAIN s : s[i] = x

RECURSIVE SeqOfRange(_, _)
\* The ascending sequence of the numbers lo..hi.
SeqOfRange(lo, hi) == IF lo > hi THEN <<>> ELSE <<lo>> \o SeqOfRange(lo + 1, hi)

(***************************************************************************)
(* State.                                                                  *)
(***************************************************************************)
VARIABLES
    session,           \* the session and its cache, as seen by this client (read-only)
    inProgressStages,  \* ClientSync.inProgressStages
    completedStages,   \* ClientSync.completedStages
    queue,             \* the client's queued messages, with their promises
    transport,         \* messages written to the joining client's connection, in order
    pending,           \* messages on that connection whose reply promise is outstanding
    pc,                \* position of run()
    stageIdx,          \* index into sequence of the stage the for-loop of run() is at
    created,           \* actors whose create message has been replied to
    drainSet,          \* the promises the current drainPromises() waits for
    authRequests,      \* sync-animations requests written to the authoritative client
    authPending,       \* the request to the authoritative client is awaiting its reply
    echoed,            \* replies echoed to the session's app connection
    failed,            \* messages whose awaited reply failed
    appCount,          \* number of messages the application has sent so far
    appLog,            \* the application's calls of sendMessage so far: type, promise and the handling applied
    latencyMs,         \* conn.quality.latencyMs.value of the joining and of the authoritative client
    animationStates,   \* the state.time (in microseconds) of the animation states the authoritative client reports
    forwarded,         \* the sync-animations payloads forwarded to the joining client, as their state.time values
    settled            \* the application's messages whose reply promise has been resolved or rejected

\* What the run reads and never writes.
inputs == <<session, latencyMs, animationStates>>

vars ==
    <<session, inProgressStages, completedStages, queue, transport, pending, pc, stageIdx,
      created, drainSet, authRequests, authPending, echoed, failed, appCount, appLog,
      latencyMs, animationStates, forwarded, settled>>

(***************************************************************************)
(* Messages.  A message is identified by its payload type, an id and who   *)
(* originated it (the sync driver replaying the cache, or the app).        *)
(***************************************************************************)
Msg(type, id, from) == [type |-> type, id |-> id, from |-> from]

\* An entry of the transport trace: the message and the code path that wrote it.
Entry(m, via) == [type |-> m.type, id |-> m.id, from |-> m.from, via |-> via]

MsgOf(e) == Msg(e.type, e.id, e.from)

(***************************************************************************)
(* The session cache.                                                      *)
(***************************************************************************)
Actors == 1..Len(session.parent)

\* session.assets: the cached load-assets messages.
assets == [k \in 1..session.nAssets |-> Msg("load-assets", k, "sync")]

\* session.assetUpdates: the cached asset-update payloads.
assetUpdates == [k \in 1..session.nAssetUpdates |-> Msg("asset-update", k, "sync")]

\* session.actors: the cached actors.
actors == SeqOfRange(1, Len(session.parent))

\* session.rootActors: the cached actors without a parent.
rootActors == SelectSeq(actors, LAMBDA a : session.parent[a] = 0)

\* session.childrenOf(actorId).
childrenOf(p) == SelectSeq(actors, LAMBDA a : session.parent[a] = p)

\* actor.created.message
createdMessage(a) == Msg("create-actor", a, "sync")

\* actor.createdAnimations, as their messages.
createdAnimations(a) ==
    IF a <= session.nAnimated THEN <<Msg("create-animation", a, "sync")>> ELSE <<>>

\* actor.activeInterpolations
activeInterpolations(a) ==
    IF a <= session.nAnimated THEN <<Msg("interpolate-actor", a, "sync")>> ELSE <<>>

\* actor.behavior is set
hasBehavior(a) == a <= session.nBehaviors

(***************************************************************************)
(* The router.                                                             *)
(***************************************************************************)
isStageComplete(stage) == includes(completedStages, stage)

isStageInProgress(stage) == includes(inProgressStages, stage)

RuleFor(type) == IF type \in DOMAIN Rules THEN Rules[type] ELSE MissingRule

\* handlingForMessage without the test of isStageInProgress.
handlingForMessage_NoDuring(message) ==
    LET rule == RuleFor(message.type) IN
    IF isStageComplete(rule.stage) THEN rule.after ELSE rule.before

handlingForMessage(message) ==
    LET rule == RuleFor(message.type) IN
    IF isStageComplete(rule.stage) THEN rule.after
    ELSE IF isStageInProgress(rule.stage) THEN rule.during
    ELSE rule.before

\* The three pieces of state a send can change, as one value.
Net == [queue |-> queue, transport |-> transport, pending |-> pending]

\* Protocol.sendMessage: write to the connection; keep the reply promise, if any.
superSendMessage(net, message, promise, via) ==
    [net EXCEPT !.transport = Append(@, Entry(message, via)),
                !.pending = IF promise THEN @ \cup {message} ELSE @]

\* Client.queueMessage.  The entry also records the stages in progress when it was
\* queued (history only: nothing in the program reads it).
queueMessage(net, message, promise) ==
    [net EXCEPT !.queue = Append(@, [message |-> message, promise |-> promise,
                                     during |-> inProgressStages])]

\* sendMessage whose 'queue' case falls through to the send of 'allow'.
sendMessage_QueueSends(net, message, promise, via) ==
    LET handling == handlingForMessage(message) IN
    CASE handling \in {"allow", "queue"} -> superSendMessage(net, message, promise, via)
      [] OTHER -> net

\* ClientSync.sendMessage
sendMessage(net, message, promise, via) ==
    LET handling == handlingForMessage(message) IN
    CASE handling = "allow" -> superSendMessage(net, message, promise, via)
      [] handling = "queue" -> queueMessage(net, message, promise)
      [] handling = "ignore" -> net
      [] OTHER -> net

\* Protocol.sendPayload called on the parent class (super.sendPayload).
superSendPayload(net, payload, via) == superSendMessage(net, payload, FALSE, via)

\* this.sendPayload: Protocol.sendPayload, which hands { payload } to this.sendMessage.
sendPayload(net, payload, via) == sendMessage(net, payload, FALSE, via)

\* ClientSync.sendAndExpectResponse: send on the parent class, with a reply promise.
sendAndExpectResponse(net, message) == superSendMessage(net, message, TRUE, "replay")

RECURSIVE SendAllAndExpectResponse(_, _)
\* messages.map(message => this.sendAndExpectResponse(message))
SendAllAndExpectResponse(net, messages) ==
    IF messages = <<>> THEN net
    ELSE SendAllAndExpectResponse(sendAndExpectResponse(net, Head(messages)), Tail(messages))

RECURSIVE SendAllPayloads(_, _)
\* payloads.map(payload => this.sendMessage({ payload }))
SendAllPayloads(net, payloads) ==
    IF payloads = <<>> THEN net
    ELSE SendAllPayloads(sendMessage(net, Head(payloads), FALSE, "replay"), Tail(payloads))

RECURSIVE SuperSendAllPayloads(_, _)
\* a loop of super.sendPayload(payload)
SuperSendAllPayloads(net, payloads) ==
    IF payloads = <<>> THEN net
    ELSE SuperSendAllPayloads(superSendPayload(net, Head(payloads), "replay"), Tail(payloads))

RECURSIVE SendQueued_NoPromise(_, _)
\* The send loop of sendQueuedMessages that leaves out queuedMessage.promise.
SendQueued_NoPromise(net, queuedMessages) ==
    IF queuedMessages = <<>> THEN net
    ELSE SendQueued_NoPromise(sendMessage(net, Head(queuedMessages).message, FALSE, "drain"),
                              Tail(queuedMessages))

RECURSIVE SendQueued(_, _)
\* for (const queuedMessage of queuedMessages) this.sendMessage(queuedMessage.message, queuedMessage.promise)
SendQueued(net, queuedMessages) ==
    IF queuedMessages = <<>> THEN net
    ELSE SendQueued(sendMessage(net, Head(queuedMessages).message, Head(queuedMessages).promise, "drain"),
                    Tail(queuedMessages))

\* Client.filterQueuedMessages: the entries the callback accepts, in order ...
filterQueuedMessages(q) == SelectSeq(q, LAMBDA e : handlingForMessage(e.message) = "allow")

\* ... which are removed from the queue.
remainingQueuedMessages(q) == SelectSeq(q, LAMBDA e : handlingForMessage(e.message) # "allow")

(***************************************************************************)
(* The stage machine.                                                      *)
(***************************************************************************)
beginStage(stage) ==
    /\ inProgressStages' = Append(inProgressStages, stage)
    /\ UNCHANGED completedStages

\* completeStage that leaves the stage in inProgressStages.
completeStage_KeepsInProgress(stage) ==
    /\ UNCHANGED inProgressStages
    /\ completedStages' = Append(completedStages, stage)

\* completeStage that forgets to record the stage as complete.
completeStage_NotRecorded(stage) ==
    /\ inProgressStages' = SelectSeq(inProgressStages, LAMBDA item : item # stage)
    /\ UNCHANGED completedStages

completeStage(stage) ==
    /\ inProgressStages' = SelectSeq(inProgressStages, LAMBDA item : item # stage)
    /\ completedStages' = Append(completedStages, stage)

(***************************************************************************)
(* Initial states: a freshly constructed ClientSync for a client joining   *)
(* a session with some cache.  A cached actor's parent was cached before   *)
(* it (parent[a] < a); parent 0 marks a root.  The first nBehaviors actors *)
(* have a behavior; the first nAnimated actors have one active             *)
(* interpolation and one created animation each.                           *)
(***************************************************************************)
ParentSeqs(maxActors) ==
    UNION { {p \in [1..n -> 0..(maxActors - 1)] : \A a \in 1..n : p[a] < a} : n \in 0..maxActors }

Sessions(maxActors, maxAssets) ==
    { [peerAuthoritative |-> pa, authoritative |-> au, nAssets |-> na, nAssetUpdates |-> nu,
       parent |-> p, nBehaviors |-> nb, nAnimated |-> nm] :
        pa \in BOOLEAN, au \in BOOLEAN, na \in 0..maxAssets, nu \in 0..MaxAssetUpdates,
        p \in ParentSeqs(maxActors), nb \in 0..MaxBehaviors, nm \in 0..MaxAnimated }

\* The sessions whose decorated actors exist.
CachedSessions(maxActors, maxAssets) ==
    {s \in Sessions(maxActors, maxAssets) : /\ s.nBehaviors <= Len(s.parent)
                                            /\ s.nAnimated <= Len(s.parent)}

\* The latencies of scenario S4: joining client 60 ms, authoritative client 100 ms.
ScenarioLatencies == {[joining |-> 60, authoritative |-> 100]}

\* The animation states of scenario S4: one animation at 10.000 s.
ScenarioAnimationStates == {<<10000000>>}

InitWith(sessions, latencies, reports) ==
    /\ session \in sessions
    /\ latencyMs \in latencies
    /\ animationStates \in reports
    /\ forwarded = <<>>
    /\ settled = {}
    /\ inProgressStages = <<>>
    /\ completedStages = <<>>
    /\ queue = <<>>
    /\ transport = <<>>
    /\ pending = {}
    /\ pc = "constructed"
    /\ stageIdx = 0
    /\ created = {}
    /\ drainSet = {}
    /\ authRequests = 0
    /\ authPending = FALSE
    /\ echoed = {}
    /\ failed = {}
    /\ appCount = 0
    /\ appLog = <<>>

\* A client joins a session whose cache holds at most MaxActors actors.
Init == InitWith(CachedSessions(MaxActors, MaxAssets), ScenarioLatencies, ScenarioAnimationStates)

\* The same with larger actor trees, for the runs without application traffic.
InitReplay ==
    InitWith(CachedSessions(MaxTreeActors, MaxAssets), ScenarioLatencies,
             ScenarioAnimationStates)

\* Assign the result of a chain of sends.
SetNet(net) ==
    /\ queue' = net.queue
    /\ transport' = net.transport
    /\ pending' = net.pending

(***************************************************************************)
(* run(), one action per stretch of code between two suspension points.    *)
(***************************************************************************)
\* run() that enters the staged replay whether or not the session is peer-authoritative.
Run_AlwaysStaged ==
    /\ pc = "constructed"
    /\ beginStage("always")
    /\ stageIdx' = 1
    /\ pc' = "begin"
    /\ UNCHANGED <<inputs, forwarded, settled, queue, transport, pending, created, drainSet,
                   authRequests, authPending, echoed, failed, appCount, appLog>>

\* run(): startListening, beginStage('always'), and the test of peerAuthoritative.
Run ==
    /\ pc = "constructed"
    /\ beginStage("always")
    /\ stageIdx' = 1
    /\ pc' = IF session.peerAuthoritative THEN "begin" ELSE "complete-always"
    /\ UNCHANGED <<inputs, forwarded, settled, queue, transport, pending, created, drainSet,
                   authRequests, authPending, echoed, failed, appCount, appLog>>

\* for (const stage of this.sequence) { this.beginStage(stage); ...
BeginStage ==
    /\ pc = "begin"
    /\ beginStage(sequence[stageIdx])
    /\ pc' = "execute"
    /\ UNCHANGED <<inputs, forwarded, settled, queue, transport, pending, stageIdx, created,
                   drainSet, authRequests, authPending, echoed, failed, appCount, appLog>>

ExecuteStage(stage) == pc = "execute" /\ sequence[stageIdx] = stage

\* stage:load-assets that sends the asset updates without awaiting the load-asset replies.
stage_load_assets_NoAwait ==
    /\ ExecuteStage("load-assets")
    /\ SetNet(SendAllPayloads(SendAllAndExpectResponse(Net, assets), assetUpdates))
    /\ pc' = "complete"
    /\ UNCHANGED <<inputs, forwarded, settled, inProgressStages, completedStages, stageIdx,
                   created, drainSet, authRequests, authPending, echoed, failed, appCount,
                   appLog>>

\* stage:load-assets, up to the await of Promise.all.
stage_load_assets ==
    /\ ExecuteStage("load-assets")
    /\ SetNet(SendAllAndExpectResponse(Net, assets))
    /\ pc' = "await-load-assets"
    /\ UNCHANGED <<inputs, forwarded, settled, inProgressStages, completedStages, stageIdx,
                   created, drainSet, authRequests, authPending, echoed, failed, appCount,
                   appLog>>

\* Promise.all over the load-assets replies is fulfilled: all of them have arrived.
LoadAssetsReplied == pc = "await-load-assets" /\ Range(assets) \cap pending = {}

\* stage:load-assets, after the await: send the cached asset updates.
stage_load_assets_updates ==
    /\ LoadAssetsReplied
    /\ SetNet(SendAllPayloads(Net, assetUpdates))
    /\ pc' = "complete"
    /\ UNCHANGED <<inputs, forwarded, settled, inProgressStages, completedStages, stageIdx,
                   created, drainSet, authRequests, authPending, echoed, failed, appCount,
                   appLog>>

\* The create messages of a sequence of actors.
CreatedMessages(as) == [i \in 1..Len(as) |-> createdMessage(as[i])]

RECURSIVE createActorRecursive_NoAwait(_, _)
\* createActorRecursive that does not await createActor before it recurses into the children.
createActorRecursive_NoAwait(net, as) ==
    IF as = <<>> THEN net
    ELSE createActorRecursive_NoAwait(
             createActorRecursive_NoAwait(sendAndExpectResponse(net, createdMessage(Head(as))),
                                          childrenOf(Head(as))),
             Tail(as))

\* createActorRecursive for each of a list of actors, each up to its first await:
\* createActor(actor) sends the create message and the reply is awaited.
createActorRecursive(net, as) == SendAllAndExpectResponse(net, CreatedMessages(as))

\* stage:create-actors, up to the await of Promise.all.
stage_create_actors ==
    /\ ExecuteStage("create-actors")
    /\ SetNet(createActorRecursive(Net, rootActors))
    /\ pc' = "await-create-actors"
    /\ UNCHANGED <<inputs, forwarded, settled, inProgressStages, completedStages, stageIdx,
                   created, drainSet, authRequests, authPending, echoed, failed, appCount,
                   appLog>>

\* Every createActorRecursive promise has resolved: every actor's reply has arrived.
CreateActorsResolved == pc = "await-create-actors" /\ created = Actors

\* stage:create-actors, after the await.
stage_create_actors_done ==
    /\ CreateActorsResolved
    /\ pc' = "complete"
    /\ UNCHANGED <<inputs, forwarded, settled, inProgressStages, completedStages, queue,
                   transport, pending, stageIdx, created, drainSet, authRequests,
                   authPending, echoed, failed, appCount, appLog>>

\* The set-behavior payloads of createActorBehavior, for the actors that have a behavior.
BehaviorPayloads ==
    LET as == SelectSeq(actors, hasBehavior) IN
    [i \in 1..Len(as) |-> Msg("set-behavior", as[i], "sync")]

\* stage:set-behaviors
stage_set_behaviors ==
    /\ ExecuteStage("set-behaviors")
    /\ SetNet(SuperSendAllPayloads(Net, BehaviorPayloads))
    /\ pc' = "complete"
    /\ UNCHANGED <<inputs, forwarded, settled, inProgressStages, completedStages, stageIdx,
                   created, drainSet, authRequests, authPending, echoed, failed, appCount,
                   appLog>>

RECURSIVE Flatten(_)
\* The concatenation of a sequence of sequences.
Flatten(ss) == IF ss = <<>> THEN <<>> ELSE Head(ss) \o Flatten(Tail(ss))

\* createActorInterpolations over all cached actors: the interpolations, enabled: false.
InterpolationPayloads == Flatten([i \in 1..Len(actors) |-> activeInterpolations(actors[i])])

\* createActorAnimations over all cached actors: the create-animation messages.
AnimationMessages == Flatten([i \in 1..Len(actors) |-> createdAnimations(actors[i])])

\* stage:create-animations with the create-animation messages sent before the interpolations.
stage_create_animations_AnimationsFirst ==
    /\ ExecuteStage("create-animations")
    /\ SetNet(SuperSendAllPayloads(SendAllAndExpectResponse(Net, AnimationMessages),
                                   InterpolationPayloads))
    /\ pc' = "complete"
    /\ UNCHANGED <<inputs, forwarded, settled, inProgressStages, completedStages, stageIdx,
                   created, drainSet, authRequests, authPending, echoed, failed, appCount,
                   appLog>>

\* stage:create-animations.  Promise.all is handed an array whose one element is an
\* array (of promises, or of such arrays), not a promise: it is fulfilled at once, and
\* the await resumes without any create-animation reply.
stage_create_animations ==
    /\ ExecuteStage("create-animations")
    /\ SetNet(SendAllAndExpectResponse(SuperSendAllPayloads(Net, InterpolationPayloads),
                                       AnimationMessages))
    /\ pc' = "complete"
    /\ UNCHANGED <<inputs, forwarded, settled, inProgressStages, completedStages, stageIdx,
                   created, drainSet, authRequests, authPending, echoed, failed, appCount,
                   appLog>>

\* stage:sync-animations without the test that the joining client is the authoritative one.
stage_sync_animations_NoSelfCheck ==
    /\ ExecuteStage("sync-animations")
    /\ authRequests' = authRequests + 1
    /\ authPending' = TRUE
    /\ pc' = "await-sync-animations"
    /\ UNCHANGED <<inputs, forwarded, settled, inProgressStages, completedStages, queue,
                   transport, pending, stageIdx, created, drainSet, echoed, failed,
                   appCount, appLog>>

\* stage:sync-animations, up to the promise it returns.
stage_sync_animations ==
    /\ ExecuteStage("sync-animations")
    /\ IF session.authoritative
       THEN /\ pc' = "complete"
            /\ UNCHANGED <<authRequests, authPending>>
       ELSE /\ authRequests' = authRequests + 1
            /\ authPending' = TRUE
            /\ pc' = "await-sync-animations"
    /\ UNCHANGED <<inputs, forwarded, settled, inProgressStages, completedStages, queue,
                   transport, pending, stageIdx, created, drainSet, echoed, failed,
                   appCount, appLog>>

\* ... this.completeStage(stage); ...
CompleteStage ==
    /\ pc = "complete"
    /\ completeStage(sequence[stageIdx])
    /\ pc' = "drain"
    /\ UNCHANGED <<inputs, forwarded, settled, queue, transport, pending, stageIdx, created,
                   drainSet, authRequests, authPending, echoed, failed, appCount, appLog>>

\* sendQueuedMessages that returns without a pass over the queue.
sendQueuedMessages_Skip ==
    /\ pc = "drain"
    /\ pc' = IF stageIdx > Len(sequence) THEN "resolved"
             ELSE IF stageIdx = Len(sequence) THEN "complete-always" ELSE "begin"
    /\ stageIdx' = IF stageIdx < Len(sequence) THEN stageIdx + 1 ELSE stageIdx
    /\ UNCHANGED <<inputs, forwarded, settled, inProgressStages, completedStages, queue,
                   transport, pending, drainSet, created, authRequests, authPending, echoed,
                   failed, appCount, appLog>>

\* sendQueuedMessages whose loop does not break when the filter takes nothing.
sendQueuedMessages_NoBreak ==
    /\ pc = "drain"
    /\ LET queuedMessages == filterQueuedMessages(queue)
           net == SendQueued([Net EXCEPT !.queue = remainingQueuedMessages(queue)],
                             queuedMessages) IN
       /\ SetNet(net)
       /\ drainSet' = IF queuedMessages = <<>> THEN drainSet ELSE net.pending
       /\ pc' = IF queuedMessages = <<>> THEN "drain" ELSE "await-drain"
    /\ UNCHANGED <<inputs, forwarded, settled, inProgressStages, completedStages, stageIdx,
                   created, authRequests, authPending, echoed, failed, appCount, appLog>>

\* One pass of the loop of sendQueuedMessages: filter, break if nothing was taken, else
\* send what was taken and await drainPromises().  On break the caller resumes: the
\* next stage, or completeStage('always'), or resolve().
sendQueuedMessages ==
    /\ pc = "drain"
    /\ LET queuedMessages == filterQueuedMessages(queue) IN
       IF queuedMessages = <<>>
       THEN /\ pc' = IF stageIdx > Len(sequence) THEN "resolved"
                     ELSE IF stageIdx = Len(sequence) THEN "complete-always" ELSE "begin"
            /\ stageIdx' = IF stageIdx < Len(sequence) THEN stageIdx + 1 ELSE stageIdx
            /\ UNCHANGED <<queue, transport, pending, drainSet>>
       ELSE LET net == SendQueued([Net EXCEPT !.queue = remainingQueuedMessages(queue)],
                                  queuedMessages) IN
            /\ SetNet(net)
            /\ drainSet' = net.pending
            /\ pc' = "await-drain"
            /\ UNCHANGED stageIdx
    /\ UNCHANGED <<inputs, forwarded, settled, inProgressStages, completedStages, created,
                   authRequests, authPending, echoed, failed, appCount, appLog>>

\* drainPromises() is fulfilled: every reply it waited for has arrived.
DrainPromisesResolved == pc = "await-drain" /\ drainSet \cap pending = {}

\* ... and the loop of sendQueuedMessages goes round.
drainPromises ==
    /\ DrainPromisesResolved
    /\ pc' = "drain"
    /\ drainSet' = {}
    /\ UNCHANGED <<inputs, forwarded, settled, inProgressStages, completedStages, queue,
                   transport, pending, stageIdx, created, authRequests, authPending, echoed,
                   failed, appCount, appLog>>

\* this.completeStage('always');
CompleteAlways ==
    /\ pc = "complete-always"
    /\ completeStage("always")
    /\ pc' = "sync-complete"
    /\ UNCHANGED <<inputs, forwarded, settled, queue, transport, pending, stageIdx, created,
                   drainSet, authRequests, authPending, echoed, failed, appCount, appLog>>

\* this.sendPayload({ type: 'sync-complete' }); then the last sendQueuedMessages.
SendSyncComplete ==
    /\ pc = "sync-complete"
    /\ SetNet(sendPayload(Net, Msg("sync-complete", 0, "sync"), "replay"))
    /\ stageIdx' = Len(sequence) + 1
    /\ pc' = "drain"
    /\ UNCHANGED <<inputs, forwarded, settled, inProgressStages, completedStages, created,
                   drainSet, authRequests, authPending, echoed, failed, appCount, appLog>>

\* The driver can take a step without waiting for anything.
DriverReady ==
    \/ pc \in {"begin", "execute", "complete", "drain", "complete-always", "sync-complete"}
    \/ LoadAssetsReplied
    \/ CreateActorsResolved
    \/ DrainPromisesResolved

\* The driver has neither resolved nor rejected.
Running == pc \notin {"resolved", "rejected"}

(***************************************************************************)
(* Macrotasks: the application sends a message, a reply arrives or fails.  *)
(* They run only when the driver is suspended.                             *)
(***************************************************************************)
\* The application hands a message to ClientSync.sendMessage.
AppSend ==
    /\ Running
    /\ ~DriverReady
    /\ appCount < MaxAppMessages
    /\ \E type \in AppTypes, promise \in BOOLEAN :
          LET message == Msg(type, appCount + 1, "app") IN
          /\ SetNet(sendMessage(Net, message, promise, "direct"))
          /\ appLog' = Append(appLog, [type |-> type, promise |-> promise,
                                       handling |-> handlingForMessage(message)])
    /\ appCount' = appCount + 1
    /\ UNCHANGED <<inputs, forwarded, settled, inProgressStages, completedStages, pc,
                   stageIdx, created, drainSet, authRequests, authPending, echoed, failed>>

\* The replies the session's app connection is sent: sendAndExpectResponse echoes the
\* reply while the client is authoritative.
EchoReply(message) ==
    IF message.from = "sync" /\ session.authoritative THEN echoed \cup {message} ELSE echoed

\* The reply to a message arrives and its promise is resolved.  For a create message of
\* the create-actors stage, createActorRecursive resumes after its await and starts on
\* the actor's children.
Reply ==
    /\ Running
    /\ ~DriverReady
    /\ \E message \in pending :
          LET net == [Net EXCEPT !.pending = @ \ {message}] IN
          /\ echoed' = EchoReply(message)
          /\ settled' = IF message.from = "app" THEN settled \cup {message.id} ELSE settled
          /\ IF message.from = "sync" /\ message.type = "create-actor"
             THEN /\ SetNet(createActorRecursive(net, childrenOf(message.id)))
                  /\ created' = created \cup {message.id}
             ELSE /\ SetNet(net)
                  /\ UNCHANGED created
    /\ UNCHANGED <<inputs, forwarded, inProgressStages, completedStages, pc, stageIdx,
                   drainSet, authRequests, authPending, failed, appCount, appLog>>

\* The promise of a message is rejected.  Promise.all of load-assets and drainPromises
\* reject with it, and run() catches that and rejects.  In createActorRecursive the
\* rejection is thrown inside the async executor of new Promise, whose result nobody
\* looks at: the promise it was to settle stays pending.  The create-animation promises
\* are not awaited by anyone.
ReplyFail ==
    /\ Running
    /\ ~DriverReady
    /\ Cardinality(failed) < MaxFailures
    /\ \E message \in pending :
          /\ pending' = pending \ {message}
          /\ failed' = failed \cup {message}
          /\ settled' = IF message.from = "app" THEN settled \cup {message.id} ELSE settled
          /\ pc' = IF \/ pc = "await-load-assets" /\ message \in Range(assets)
                      \/ pc = "await-drain" /\ message \in drainSet
                   THEN "rejected" ELSE pc
    /\ UNCHANGED <<inputs, forwarded, inProgressStages, completedStages, queue, transport,
                   stageIdx, created, drainSet, authRequests, authPending, echoed, appCount,
                   appLog>>

\* The sync-animations request sent to the authoritative client.
SyncAnimationsRequest == Msg("sync-animations", 0, "authoritative")

\* animationState.state.time += latencyMs / 2000, on a time in seconds; here on a time
\* in microseconds.
AddLatency(time, ms) == time + (ms * 1000000) \div 2000

\* The loop over payload.animationStates that adds only the authoritative client's latency.
adjustAnimationStates_OneLink(states) ==
    [i \in DOMAIN states |-> AddLatency(states[i], latencyMs.authoritative)]

\* The loop over payload.animationStates: each state.time is moved on by half the
\* latency of the authoritative client's connection and half that of the joining one's.
adjustAnimationStates(states) ==
    [i \in DOMAIN states |->
        AddLatency(AddLatency(states[i], latencyMs.authoritative), latencyMs.joining)]

\* The authoritative client replies to the sync-animations request: the payload is
\* adjusted, forwarded to the joining client and the stage's promise is resolved.
SyncAnimationsReply ==
    /\ Running
    /\ authPending
    /\ authPending' = FALSE
    /\ forwarded' = Append(forwarded, adjustAnimationStates(animationStates))
    /\ SetNet(superSendPayload(Net, Msg("sync-animations", 0, "sync"), "replay"))
    /\ pc' = "complete"
    /\ UNCHANGED <<inputs, settled, inProgressStages, completedStages, stageIdx, created,
                   drainSet, authRequests, echoed, failed, appCount, appLog>>

\* The request to the authoritative client fails: reject is the promise's own reject.
SyncAnimationsFail ==
    /\ Running
    /\ authPending
    /\ Cardinality(failed) < MaxFailures
    /\ authPending' = FALSE
    /\ failed' = failed \cup {SyncAnimationsRequest}
    /\ pc' = "rejected"
    /\ UNCHANGED <<inputs, forwarded, settled, inProgressStages, completedStages, queue,
                   transport, pending, stageIdx, created, drainSet, authRequests, echoed,
                   appCount, appLog>>

Next ==
    \/ Run
    \/ BeginStage
    \/ stage_load_assets
    \/ stage_load_assets_updates
    \/ stage_create_actors
    \/ stage_create_actors_done
    \/ stage_set_behaviors
    \/ stage_create_animations
    \/ stage_sync_animations
    \/ CompleteStage
    \/ sendQueuedMessages
    \/ drainPromises
    \/ CompleteAlways
    \/ SendSyncComplete
    \/ AppSend
    \/ Reply
    \/ ReplyFail
    \/ SyncAnimationsReply
    \/ SyncAnimationsFail

Spec == Init /\ [][Next]_vars

\* The replay alone: the application sends nothing while the client synchronizes.
NextReplay ==
    \/ Run
    \/ BeginStage
    \/ stage_load_assets
    \/ stage_load_assets_updates
    \/ stage_create_actors
    \/ stage_create_actors_done
    \/ stage_set_behaviors
    \/ stage_create_animations
    \/ stage_sync_animations
    \/ CompleteStage
    \/ sendQueuedMessages
    \/ CompleteAlways
    \/ SendSyncComplete
    \/ Reply
    \/ ReplyFail
    \/ SyncAnimationsReply
    \/ SyncAnimationsFail

SpecReplay == InitReplay /\ [][NextReplay]_vars

\* The load-assets stage with several cached assets: a cache of assets and asset
\* updates only.
InitAssets ==
    InitWith(CachedSessions(0, MaxReplayAssets), ScenarioLatencies, ScenarioAnimationStates)

SpecAssets == InitAssets /\ [][NextReplay]_vars

\* A cache of assets only, for the progress of the drain loop.
InitLive ==
    InitWith(CachedSessions(0, MaxAssets), ScenarioLatencies, ScenarioAnimationStates)

\* The continuation of sendQueuedMessages runs once it can (the job queue of the event
\* loop), and the reply to a sent message eventually arrives.
Fairness ==
    /\ WF_vars(sendQueuedMessages)
    /\ WF_vars(drainPromises)
    /\ WF_vars(Reply)

SpecLive == InitLive /\ [][Next]_vars /\ Fairness

\* The latencies a connection may report, in milliseconds.
Latencies == {0, 60, 100}

\* The times an animation state may report, in microseconds.
ReportedTimes == {0, 10000000}

\* The payloads the authoritative client may reply with: up to MaxAnimationStates states.
AnimationReports == UNION {[1..n -> ReportedTimes] : n \in 0..MaxAnimationStates}

\* The reconciliation of animation times: any two latencies, any reported payload, a
\* cache of assets only.
InitAnimations ==
    InitWith(CachedSessions(0, MaxAssets), [joining : Latencies, authoritative : Latencies],
             AnimationReports)

SpecAnimations == InitAnimations /\ [][NextReplay]_vars

(***************************************************************************)
(* Properties.                                                             *)
(***************************************************************************)
Last(s) == s[Len(s)]

\* The messages on the joining client's transport.
Sent == {MsgOf(transport[i]) : i \in DOMAIN transport}

\* The position of a message on the transport (0 if it is not there).
PosOf(m) == IF m \in Sent THEN CHOOSE i \in DOMAIN transport : MsgOf(transport[i]) = m ELSE 0

\* How many sync-complete payloads the transport has seen.
SyncCompleteCount == Cardinality({i \in DOMAIN transport : transport[i].type = "sync-complete"})

\* The application's i-th message.
AppMsg(i) == Msg(appLog[i].type, i, "app")

\* The classification the rule table prescribes, stated over the two stage sets.
ExpectedHandling(type) ==
    LET r == IF type \in DOMAIN Rules THEN Rules[type] ELSE MissingRule IN
    IF r.stage \in Range(completedStages) THEN r.after
    ELSE IF r.stage \in Range(inProgressStages) THEN r.during
    ELSE r.before

\* The application has just called sendMessage.
AppSent == appCount' = appCount + 1

\* C1: in every reachable stage state the router classifies every message type as the
\* rule of its discriminant (or the default rule) prescribes: after if the rule's stage
\* is complete, else during if it is in progress, else before; and that is the handling
\* sendMessage applies to each message of the application.
C1_Classification ==
    /\ [](\A t \in PayloadTypes : handlingForMessage(Msg(t, 0, "app")) = ExpectedHandling(t))
    /\ [][AppSent => Last(appLog').handling = ExpectedHandling(Last(appLog').type)]_vars

\* C1 witness: the application sent two create-actor messages; the first was queued and
\* the second, after a stage transition, allowed.
C1_Witness ==
    /\ Len(appLog) = 2
    /\ appLog[1].type = "create-actor" /\ appLog[1].handling = "queue"
    /\ appLog[2].type = "create-actor" /\ appLog[2].handling = "allow"

\* The queue entries that hold a message.
QueuedMsgs(q) == {q[i].message : i \in DOMAIN q}

\* C2: a message classified 'queue' when the application sends it is appended to the
\* queue and not written to the transport by that call; a queued message reaches the
\* transport only in a pass of sendQueuedMessages, at a moment its classification is
\* 'allow', its rule's stage being complete and every sequence stage that was in
\* progress when it was queued being complete too.
C2_QueuedNotSentBeforeAllowed ==
    /\ [](\A i \in DOMAIN appLog :
            (appLog[i].handling = "queue" /\ AppMsg(i) \in Sent) =>
                /\ transport[PosOf(AppMsg(i))].via = "drain"
                /\ AppMsg(i) \notin QueuedMsgs(queue)
                /\ RuleFor(appLog[i].type).stage \in Range(completedStages))
    /\ [][/\ (AppSent /\ Last(appLog').handling = "queue") =>
                /\ transport' = transport
                /\ Len(queue') = Len(queue) + 1
                /\ Last(queue').message = Msg(Last(appLog').type, appCount', "app")
          /\ \A i \in DOMAIN queue :
                (queue[i].message \notin QueuedMsgs(queue')) =>
                    /\ pc = "drain"
                    /\ handlingForMessage(queue[i].message) = "allow"
                    /\ queue[i].message \notin Sent
                    /\ queue[i].message \in Sent'
                    /\ \A st \in Range(queue[i].during) \ {"always"} :
                          st \in Range(completedStages)]_vars

\* C2 witness: a message queued while load-assets was in progress has been written to
\* the transport by a drain pass.
C2_Witness ==
    \E i \in DOMAIN appLog :
        /\ appLog[i].handling = "queue"
        /\ AppMsg(i) \in Sent
        /\ transport[PosOf(AppMsg(i))].via = "drain"
        /\ "load-assets" \in Range(completedStages)
        /\ pc = "await-drain"

NoDuplicates(s) == \A i, j \in DOMAIN s : s[i] = s[j] => i = j

\* C3: no stage is both in progress and complete; a stage is begun at most once, only
\* when absent, completed only when in progress, and stays complete; 'always' is in
\* progress from the start of run until it is completed, which happens right before
\* sync-complete is sent.
C3_StageLifecycle ==
    /\ [](/\ Range(inProgressStages) \cap Range(completedStages) = {}
          /\ NoDuplicates(inProgressStages)
          /\ NoDuplicates(completedStages)
          /\ pc # "constructed" =>
                ("always" \in Range(inProgressStages) \/ "always" \in Range(completedStages))
          /\ SyncCompleteCount > 0 => "always" \in Range(completedStages)
          /\ "always" \in Range(completedStages) => (pc = "sync-complete" \/ SyncCompleteCount > 0))
    /\ [][/\ Range(completedStages) \subseteq Range(completedStages')
          /\ \A st \in Range(inProgressStages') \ Range(inProgressStages) :
                st \notin Range(completedStages)
          /\ \A st \in Range(completedStages') \ Range(completedStages) :
                st \in Range(inProgressStages) /\ st \notin Range(inProgressStages')
          /\ \A st \in Range(inProgressStages) \ Range(inProgressStages') :
                st \in Range(completedStages')]_vars

\* C3 witness: a resolved run, every sequence stage and 'always' complete.
C3_Witness ==
    /\ pc = "resolved"
    /\ Range(completedStages) = Range(sequence) \cup {"always"}
    /\ inProgressStages = <<>>

\* C4 as stated: every run of the sync driver, however it ends, has written exactly one
\* sync-complete.
C4_ExactlyOnceEveryRun == pc \in {"resolved", "rejected"} => SyncCompleteCount = 1

\* C4, amended: at most one sync-complete is written in any run, exactly one in every
\* run that resolves, and none while 'always' is not complete.
C4_OnceAfterAlways ==
    /\ SyncCompleteCount <= 1
    /\ pc = "resolved" => SyncCompleteCount = 1
    /\ SyncCompleteCount = 1 =>
          ("always" \in Range(completedStages) /\ "always" \notin Range(inProgressStages))

\* C4 witness: a resolved run of a peer-authoritative session, sync-complete last on
\* the transport.
C4_Witness ==
    /\ pc = "resolved"
    /\ session.peerAuthoritative
    /\ transport # <<>>
    /\ Last(transport).type = "sync-complete"

\* C5: in the create-actors stage the create message of an actor whose parent is cached
\* is on the transport only if the reply to the parent's create message has been
\* received (and the parent's create message precedes it), whatever the tree and the
\* order of the replies.
C5_ParentRepliedBeforeChild ==
    \A a \in Actors :
        (session.parent[a] # 0 /\ createdMessage(a) \in Sent) =>
            /\ session.parent[a] \in created
            /\ createdMessage(session.parent[a]) \in Sent
            /\ PosOf(createdMessage(session.parent[a])) < PosOf(createdMessage(a))

\* C5 witness: a grandchild's create message has been sent while the reply to another
\* root's create message is still outstanding.
C5_Witness ==
    \E a, b \in Actors :
        /\ session.parent[a] # 0
        /\ session.parent[session.parent[a]] # 0
        /\ createdMessage(a) \in Sent
        /\ session.parent[b] = 0
        /\ createdMessage(b) \in pending

\* C6: when the driver of a peer whose replies all arrived resolves, every message that
\* was queued during the sync has been written to the transport.
C6_NoQueuedMessageLeaked ==
    (pc = "resolved" /\ failed = {}) =>
        \A i \in DOMAIN appLog : appLog[i].handling = "queue" => AppMsg(i) \in Sent

\* The messages whose replies the stages send-and-await.
AwaitedByStages == {m \in failed : m.from = "sync"} \cup (failed \cap {SyncAnimationsRequest})

\* C7: once the awaited reply of a stage (load-assets, create-actors, create-animations,
\* the sync-animations request) has failed, the driver has rejected, and sync-complete
\* is not sent.
C7_FailureRejects ==
    AwaitedByStages # {} => (pc = "rejected" /\ SyncCompleteCount = 0)

\* C8: a message of unknown discriminant that the application sends during the sync is
\* queued, and when the driver has resolved it is on the transport, after sync-complete.
C8_UnknownDispatchedAfterSync ==
    \A i \in DOMAIN appLog :
        appLog[i].type = "unknown" =>
            /\ appLog[i].handling = "queue"
            /\ pc = "resolved" =>
                  /\ AppMsg(i) \in Sent
                  /\ PosOf(Msg("sync-complete", 0, "sync")) < PosOf(AppMsg(i))

\* The session has no cached state.
EmptyCache ==
    /\ session.nAssets = 0
    /\ session.nAssetUpdates = 0
    /\ session.parent = <<>>

\* The types of the payloads the driver itself has written to the transport.
DriverPayloadTypes ==
    LET own == SelectSeq(transport, LAMBDA e : e.from = "sync") IN
    [i \in 1..Len(own) |-> own[i].type]

IsPrefix(s, t) == Len(s) <= Len(t) /\ \A i \in DOMAIN s : s[i] = t[i]

\* C9 as stated: with an empty cache the driver writes nothing but one sync-complete,
\* whether the joining client is the authoritative one or not.
C9_OnlySyncComplete ==
    EmptyCache =>
        /\ IsPrefix(DriverPayloadTypes, <<"sync-complete">>)
        /\ pc = "resolved" => DriverPayloadTypes = <<"sync-complete">>

\* What the driver writes for an empty cache.
EmptyCacheTrace ==
    IF session.peerAuthoritative /\ ~session.authoritative
    THEN <<"sync-animations", "sync-complete">>
    ELSE <<"sync-complete">>

\* C9, amended: with an empty cache the driver writes one sync-complete and nothing
\* else, except that in a peer-authoritative session a joining client that is not the
\* authoritative one is first forwarded the authoritative client's sync-animations reply.
C9_EmptyCacheTrace ==
    EmptyCache =>
        /\ IsPrefix(DriverPayloadTypes, EmptyCacheTrace)
        /\ pc = "resolved" => DriverPayloadTypes = EmptyCacheTrace

\* C9 witness: a client that is not the authoritative one has joined an empty
\* peer-authoritative session, and the driver has resolved.
C9_Witness ==
    /\ EmptyCache
    /\ session.peerAuthoritative
    /\ ~session.authoritative
    /\ pc = "resolved"
    /\ DriverPayloadTypes = <<"sync-animations", "sync-complete">>

RECURSIVE BreadthFirst(_)
\* The actors in the order their create messages are sent when every reply arrives in
\* the order the messages were sent.
BreadthFirst(frontier) ==
    IF frontier = <<>> THEN <<>>
    ELSE <<Head(frontier)>> \o BreadthFirst(Tail(frontier) \o childrenOf(Head(frontier)))

\* The transport trace of the run in which every reply arrives in the order of the sends.
CanonicalTrace ==
    IF session.peerAuthoritative
    THEN assets \o assetUpdates \o CreatedMessages(BreadthFirst(rootActors))
         \o BehaviorPayloads \o InterpolationPayloads \o AnimationMessages
         \o (IF session.authoritative THEN <<>> ELSE <<Msg("sync-animations", 0, "sync")>>)
         \o <<Msg("sync-complete", 0, "sync")>>
    ELSE <<Msg("sync-complete", 0, "sync")>>

\* The transport trace, as messages.
TransportMsgs == [i \in DOMAIN transport |-> MsgOf(transport[i])]

\* C10 as stated: without application traffic every resolved run against a cache
\* snapshot has written the same sequence of messages, whatever the order of replies.
C10_SameTrace ==
    (pc = "resolved" /\ appCount = 0) => TransportMsgs = CanonicalTrace

\* C10, amended: every resolved run against a cache snapshot writes the same messages,
\* each once, in the same sequence except for the order of the create-actor messages
\* among themselves, which depends on the order in which the replies arrive.
C10_SameTraceUpToActorOrder ==
    (pc = "resolved" /\ appCount = 0) =>
        /\ Len(TransportMsgs) = Len(CanonicalTrace)
        /\ \A i \in DOMAIN transport :
              IF CanonicalTrace[i].type = "create-actor"
              THEN TransportMsgs[i].type = "create-actor"
              ELSE TransportMsgs[i] = CanonicalTrace[i]
        /\ Range(TransportMsgs) = Range(CanonicalTrace)

\* C10 witness: a resolved run whose create-actor messages went out in another order
\* than in the run whose replies arrive in the order of the sends.
C10_Witness ==
    /\ pc = "resolved"
    /\ appCount = 0
    /\ TransportMsgs # CanonicalTrace

\* The run has written sync-complete and is in, or past, the drain that follows it.
AfterSyncComplete == stageIdx = Len(sequence) + 1

\* C11: when the session is not peer-authoritative only 'always' is ever in progress or
\* complete, the driver writes no cached message, only sync-complete, and the step that
\* writes sync-complete leads into a queue drain, from which alone the run resolves.
C11_SingleAuthoritySkipsReplay ==
    /\ [](~session.peerAuthoritative =>
            /\ Range(inProgressStages) \subseteq {"always"}
            /\ Range(completedStages) \subseteq {"always"}
            /\ IsPrefix(DriverPayloadTypes, <<"sync-complete">>)
            /\ authRequests = 0
            /\ AfterSyncComplete <=> DriverPayloadTypes = <<"sync-complete">>
            /\ AfterSyncComplete => pc \in {"drain", "await-drain", "resolved", "rejected"}
            /\ pc = "resolved" => AfterSyncComplete)
    /\ [][(~session.peerAuthoritative /\ SyncCompleteCount' > SyncCompleteCount) =>
            (pc' = "drain" /\ completedStages = <<"always">>)]_vars
    /\ [][(~session.peerAuthoritative /\ pc # "resolved" /\ pc' = "resolved") =>
            (pc = "drain" /\ filterQueuedMessages(queue) = <<>>)]_vars

\* C11 witness: a run of a session that is not peer-authoritative has resolved although
\* the cache holds an asset, an actor, a behavior and an animation.
C11_Witness ==
    /\ ~session.peerAuthoritative
    /\ pc = "resolved"
    /\ session.nAssets > 0
    /\ session.parent # <<>>
    /\ session.nBehaviors > 0
    /\ session.nAnimated > 0
    /\ DriverPayloadTypes = <<"sync-complete">>

\* The sync-animations payloads the driver has written to the joining client's transport.
ForwardedCount ==
    Cardinality({i \in DOMAIN transport :
                    transport[i].type = "sync-animations" /\ transport[i].from = "sync"})

\* C12: every payload forwarded in sync-animations holds, state for state, the time the
\* authoritative client reported plus half its latency plus half the joining client's
\* (10.000 s with 100 ms and 60 ms gives 10.080 s); it is forwarded once, and a resolved
\* run of a non-authoritative joiner has forwarded it; when the joining client is the
\* authoritative one nothing is requested and nothing is forwarded.
C12_LatencyCompensation ==
    /\ \A k \in DOMAIN forwarded :
          /\ Len(forwarded[k]) = Len(animationStates)
          /\ \A i \in DOMAIN animationStates :
                forwarded[k][i] = animationStates[i] + 500 * latencyMs.authoritative
                                                     + 500 * latencyMs.joining
    /\ (/\ forwarded # <<>>
        /\ animationStates = <<10000000>>
        /\ latencyMs = [joining |-> 60, authoritative |-> 100]) => forwarded[1] = <<10080000>>
    /\ Len(forwarded) <= 1
    /\ ForwardedCount = Len(forwarded)
    /\ authRequests <= 1
    /\ (session.peerAuthoritative /\ ~session.authoritative /\ pc = "resolved") =>
          (authRequests = 1 /\ Len(forwarded) = 1)
    /\ session.authoritative => (authRequests = 0 /\ forwarded = <<>>)

\* C12 witness: a resolved run in which a payload of animation states was forwarded,
\* the two latencies positive and different.
C12_Witness ==
    /\ pc = "resolved"
    /\ ~session.authoritative
    /\ Len(forwarded) = 1
    /\ animationStates # <<>>
    /\ \E i \in DOMAIN animationStates : animationStates[i] > 0
    /\ latencyMs.authoritative > latencyMs.joining
    /\ latencyMs.joining > 0

\* C13 as stated: once create-animations is complete, every cached create-animation
\* message has been sent and its reply has arrived.
C13_AnimationsAwaited ==
    "create-animations" \in Range(completedStages) =>
        \A i \in DOMAIN AnimationMessages :
            AnimationMessages[i] \in Sent /\ AnimationMessages[i] \notin pending

\* The load-asset messages of the cache that are on the transport.
AssetsSent == Range(assets) \cap Sent

\* The asset updates of the cache that are on the transport.
AssetUpdatesSent == Range(assetUpdates) \cap Sent

\* C14: the load-assets stage writes all cached load-asset messages in one step, each
\* with a reply promise; an asset update is on the transport only if every load-asset
\* message has been sent and answered, none with a failure; the step that writes the
\* asset updates writes all of them, without a reply promise, and ends the stage
\* function, so that the stage completes next.
C14_UpdatesAfterAssetReplies ==
    /\ [](AssetUpdatesSent # {} =>
            /\ AssetsSent = Range(assets)
            /\ Range(assets) \cap pending = {}
            /\ Range(assets) \cap failed = {})
    /\ [](Range(assetUpdates) \cap pending = {})
    /\ [](AssetsSent # {} => AssetsSent = Range(assets))
    /\ [][(AssetsSent = {} /\ AssetsSent' # {}) =>
            (/\ AssetsSent' = Range(assets)
             /\ Range(assets) \subseteq pending'
             /\ pc' = "await-load-assets")]_vars
    /\ [][(pc = "await-load-assets" /\ pc' # pc /\ pc' # "rejected") =>
            (/\ AssetUpdatesSent' = Range(assetUpdates)
             /\ pending' = pending
             /\ pc' = "complete")]_vars
    /\ [][(pc = "complete" /\ sequence[stageIdx] = "load-assets") =>
            includes(completedStages', "load-assets")]_vars

\* C14 witness: two cached assets and an asset update; both replies have arrived, the
\* update is on the transport after both load-asset messages and the stage is complete.
C14_Witness ==
    /\ session.nAssets = 2
    /\ session.nAssetUpdates > 0
    /\ AssetUpdatesSent = Range(assetUpdates)
    /\ includes(completedStages, "load-assets")
    /\ \A i \in DOMAIN assets : PosOf(assets[i]) < PosOf(assetUpdates[1])

\* The order of the stages as C15 states it.
FixedOrder ==
    <<"load-assets", "create-actors", "set-behaviors", "create-animations", "sync-animations">>

\* The sequence stages among a list of stages, in the order of the list.
SequenceStages(stages) == SelectSeq(stages, LAMBDA stage : stage # "always")

\* C15: the sequence stages complete in the order load-assets, create-actors,
\* set-behaviors, create-animations, sync-animations; the only sequence stage that can
\* be in progress is the one after the last completed one; a stage is begun only from
\* the point the run reaches after the previous stage's drain has found nothing more
\* to send; and sync-complete is on the transport only when all five are complete.
C15_StagesInFixedOrder ==
    /\ [](/\ IsPrefix(SequenceStages(completedStages), FixedOrder)
          /\ Len(SequenceStages(inProgressStages)) <= 1
          /\ SequenceStages(inProgressStages) # <<>> =>
                /\ Len(SequenceStages(completedStages)) < Len(FixedOrder)
                /\ SequenceStages(inProgressStages) =
                      <<FixedOrder[Len(SequenceStages(completedStages)) + 1]>>
          /\ (session.peerAuthoritative /\ SyncCompleteCount > 0) =>
                SequenceStages(completedStages) = FixedOrder)
    /\ [][SequenceStages(inProgressStages') # SequenceStages(inProgressStages) =>
            \/ /\ pc = "begin"
               /\ SequenceStages(inProgressStages) = <<>>
               /\ filterQueuedMessages(queue) = <<>>
               /\ SequenceStages(inProgressStages') =
                     <<FixedOrder[Len(SequenceStages(completedStages)) + 1]>>
            \/ /\ pc = "complete"
               /\ SequenceStages(inProgressStages') = <<>>
               /\ SequenceStages(completedStages') =
                     SequenceStages(completedStages) \o SequenceStages(inProgressStages)]_vars
    /\ [][(pc' = "begin" /\ pc # "begin") =>
            \/ pc = "constructed"
            \/ /\ pc = "drain"
               /\ filterQueuedMessages(queue) = <<>>
               /\ SequenceStages(inProgressStages) = <<>>
               /\ SequenceStages(completedStages) # <<>>]_vars

\* C15 witness: a resolved peer-authoritative run with all five stages complete, in
\* which a drain between two stages wrote a queued message of the application.
C15_Witness ==
    /\ pc = "resolved"
    /\ session.peerAuthoritative
    /\ SequenceStages(completedStages) = FixedOrder
    /\ \E i, j \in DOMAIN transport :
          /\ i < j
          /\ transport[i].via = "drain"
          /\ transport[j].from = "sync"
          /\ transport[j].type # "sync-complete"

\* The queue entries the rule table classifies 'allow' in the current stage state, in
\* queue order, and the others.
AllowedEntries == SelectSeq(queue, LAMBDA e : ExpectedHandling(e.message.type) = "allow")
OtherEntries == SelectSeq(queue, LAMBDA e : ExpectedHandling(e.message.type) # "allow")

\* C16: a pass of sendQueuedMessages appends to the transport exactly the queue entries
\* classified 'allow', in queue order, each with the reply promise it was queued with,
\* and leaves the other entries in the queue in their order; no message is written
\* twice and none is both queued and written.
C16_DrainPass ==
    /\ [][pc = "drain" =>
            /\ transport' = transport \o [i \in DOMAIN AllowedEntries |->
                                              Entry(AllowedEntries[i].message, "drain")]
            /\ pending' = pending \cup {AllowedEntries[i].message :
                                           i \in {j \in DOMAIN AllowedEntries :
                                                      AllowedEntries[j].promise}}
            /\ queue' = OtherEntries]_vars
    /\ [](NoDuplicates(TransportMsgs))
    /\ [](QueuedMsgs(queue) \cap Sent = {})
    /\ [](\A i \in DOMAIN transport : transport[i].via = "drain" =>
              /\ transport[i].from = "app"
              /\ appLog[transport[i].id].handling = "queue"
              /\ (MsgOf(transport[i]) \in pending => appLog[transport[i].id].promise))

\* C16 witness: a pass has just written two queued messages in the order they were
\* queued, the first with its reply promise, the second without one.
C16_Witness ==
    /\ pc = "await-drain"
    /\ Len(transport) >= 2
    /\ transport[Len(transport)].via = "drain"
    /\ transport[Len(transport) - 1].via = "drain"
    /\ transport[Len(transport) - 1].id < transport[Len(transport)].id
    /\ MsgOf(transport[Len(transport) - 1]) \in pending
    /\ MsgOf(transport[Len(transport)]) \notin pending

\* The run is inside sendQueuedMessages.
InDrainLoop == pc \in {"drain", "await-drain"}

\* C17: whenever the run is inside sendQueuedMessages it eventually leaves it, replies
\* arriving and the application sending a bounded number of messages; a pass that takes
\* nothing from the queue ends the loop and the caller resumes, a pass that takes
\* something awaits the replies, and the loop goes round again only from that await.
C17_DrainTerminates ==
    /\ InDrainLoop ~> ~InDrainLoop
    /\ [][(pc = "drain" /\ AllowedEntries = <<>>) =>
            (pc' \in {"begin", "complete-always", "resolved"} /\ queue' = queue)]_vars
    /\ [][(pc = "drain" /\ AllowedEntries # <<>>) => pc' = "await-drain"]_vars
    /\ [][(pc = "await-drain" /\ pc' # pc) => pc' \in {"drain", "rejected"}]_vars

\* C17 witness: the run has resolved; a drain between two stages wrote a queued message
\* and, while it awaited the reply, the application had another message queued, which
\* is in the queue still.
C17_Witness ==
    /\ pc = "resolved"
    /\ \E i \in DOMAIN transport : transport[i].via = "drain"
    /\ \E i \in DOMAIN queue : queue[i].during = <<"always">>

\* C18 as stated: a message of the application that the router classified 'ignore' is
\* neither written nor queued, and its reply promise, if it has one, has been settled.
C18_IgnoreResolves ==
    \A i \in DOMAIN appLog :
        appLog[i].handling = "ignore" =>
            /\ AppMsg(i) \notin Sent
            /\ AppMsg(i) \notin QueuedMsgs(queue)
            /\ appLog[i].promise => i \in settled

\* The discriminants whose rule is before = queue, during = allow, after = allow.
QueueThenAllow ==
    {t \in DOMAIN Rules :
        Rules[t].before = "queue" /\ Rules[t].during = "allow" /\ Rules[t].after = "allow"}

\* C19 as stated: of two messages of one such discriminant that the application sends
\* during a sync, the later one is on the transport only after the earlier one.
C19_PerDiscriminantOrder ==
    \A i, j \in DOMAIN appLog :
        (/\ i < j
         /\ appLog[i].type = appLog[j].type
         /\ appLog[i].type \in QueueThenAllow
         /\ AppMsg(j) \in Sent) =>
            (AppMsg(i) \in Sent /\ PosOf(AppMsg(i)) < PosOf(AppMsg(j)))

\* sendQueuedMessages has returned and its caller has not yet taken its next step: the
\* next beginStage, completeStage('always') after the last stage, or resolve.
ReturnedFromDrain ==
    \/ pc = "resolved"
    \/ pc = "begin" /\ stageIdx > 1
    \/ pc = "complete-always" /\ session.peerAuthoritative

\* C20: when sendQueuedMessages has returned, no entry of the queue is classified
\* 'allow'; the return follows a pass that took nothing, with the queue as that pass
\* left it, and the application sends no message between that pass and the caller's
\* next step.
C20_NoAllowedLeftOnReturn ==
    /\ [](ReturnedFromDrain => AllowedEntries = <<>>)
    /\ [][(ReturnedFromDrain' /\ ~ReturnedFromDrain) =>
            (pc = "drain" /\ AllowedEntries = <<>> /\ queue' = queue)]_vars
    /\ [][AppSent => (~ReturnedFromDrain /\ pc # "drain")]_vars
    /\ [][(ReturnedFromDrain /\ pc # "resolved") => queue' = queue]_vars

\* C20 witness: sendQueuedMessages has returned before the next stage; a pass of it
\* wrote a queued message, and the queue still holds one that is not classified 'allow'.
C20_Witness ==
    /\ pc = "begin"
    /\ stageIdx > 1
    /\ queue # <<>>
    /\ \E i \in DOMAIN transport : transport[i].via = "drain"

====
